---- MODULE Spec2Model ----
(***************************************************************************)
(* Reconciliation and analytics engine of the trading-performance          *)
(* analyzers: LiveTradingPerformanceAnalyzer (log extraction, ledger       *)
(* normalisation, match_trades, calculate_performance_metrics) and         *)
(* HistoricalPerformanceAnalyzer (parse_bot_decisions,                     *)
(* fetch_extended_trade_history, analyze_what_worked_vs_failed) and        *)
(* ConfidenceWinRateAnalyzer (analyze_confidence_vs_winrate).              *)
(*                                                                         *)
(* Conventions of the model                                                *)
(*  - a symbol such as "EUR/USD" is the token sequence <<"EUR","/","USD">>,*)
(*    so that str.replace('/', '_') is a real conversion;                  *)
(*  - prices are integers in units of 0.00001, money in units of 0.01,     *)
(*    times in seconds on one clock, confidences in percent;               *)
(*  - a Python exception leaving a method is recorded in `raised`.         *)
(***************************************************************************)
EXTENDS Integers, Sequences, FiniteSets, TLC

VARIABLES
    bot_intentions,      \* self.bot_intentions        (live analyzer)
    oanda_transactions,  \* self.oanda_transactions    (live analyzer)
    matched_trades,      \* self.matched_trades        (live analyzer)
    metrics,             \* last PerformanceMetrics returned, or NoMetrics
    raised,              \* exception that left the last call, or "none"
    pc,                  \* position of the driver: "load", "matched", "metrics"
    match_calls,         \* number of match_trades calls made so far
    log_content,         \* the log text handed to the extractors, as lines
    bot_decisions,       \* self.bot_decisions        (historical analyzer)
    ledger,              \* data['transactions'] of the broker's response
    historical_trades,   \* self.historical_trades    (historical analyzer)
    last_fetch,          \* the last fetch call: which, HTTP outcome, return value
    analysis,            \* last return value of analyze_what_worked_vs_failed
    df,                  \* self.df of the confidence analyzer, by columns
    results,             \* last return value of analyze_confidence_vs_winrate
    last_parse           \* the last parse call: which extractor, return value

reconVars == <<bot_intentions, oanda_transactions, matched_trades, metrics,
               raised, pc, match_calls>>

extractVars == <<log_content, bot_decisions, last_parse>>

fetchVars == <<ledger, historical_trades, last_fetch>>

aggVars == <<analysis, df, results>>

vars == <<bot_intentions, oanda_transactions, matched_trades, metrics,
          raised, pc, match_calls, log_content, bot_decisions,
          ledger, historical_trades, last_fetch, analysis, df, results,
          last_parse>>

----------------------------------------------------------------------------
(* Bounds of the model *)

MaxIntentions == 2
MaxTransactions == 2
MaxMatchCalls == 2
MaxLines == 3
MaxEntries == 3
MaxOpenTrades == 1

----------------------------------------------------------------------------
(* Helpers *)

Abs(x) == IF x < 0 THEN 0 - x ELSE x

Range(s) == {s[k] : k \in DOMAIN s}

RECURSIVE SumSeq(_)
SumSeq(s) == IF s = <<>> THEN 0 ELSE Head(s) + SumSeq(Tail(s))

\* str.replace(old, new) on a token sequence
Replace(s, old, new) == [k \in DOMAIN s |-> IF s[k] = old THEN new ELSE s[k]]

\* a quotient num/den kept exact; Python's literal 0 of the guarded branches
Ratio(num, den) == [num |-> num, den |-> den]
Zero == Ratio(0, 1)

\* Optional[str]: None, or a text (a token sequence, possibly empty)
None == [present |-> FALSE, text |-> <<>>]
Text(t) == [present |-> TRUE, text |-> t]
NoMetrics == [none |-> TRUE]
NoFetch == [call |-> "none", ok |-> TRUE, returned |-> <<>>]
NoParse == [call |-> "none", returned |-> <<>>]
NoAnalysis == [none |-> TRUE]
NoColumn == [present |-> FALSE, values |-> <<>>]
\* self.df = None
NoFrame == [loaded |-> FALSE, PL_NUMERIC |-> <<>>,
            SIMULATED_CONFIDENCE |-> NoColumn, CONFIDENCE_BIN |-> NoColumn]
NoResults == [none |-> TRUE]

----------------------------------------------------------------------------
(* Records: BotTradeIntention and OANDATransaction *)

EUR_USD_pair == <<"EUR", "/", "USD">>
GBP_USD_pair == <<"GBP", "/", "USD">>
UNKNOWN == <<"UNKNOWN">>
EUR_USD == <<"EUR", "_", "USD">>

BotTradeIntention(ts, pair, signal, conf, entry, reason, executed) ==
    [timestamp |-> ts, pair |-> pair, signal_type |-> signal,
     confidence |-> conf, entry_price |-> entry, target_price |-> 0,
     stop_loss |-> 0, expected_units |-> 0, expected_profit |-> 0,
     expected_loss |-> 0, risk_reward_ratio |-> 0,
     rejection_reason |-> reason, executed |-> executed]

OANDATransaction(id, time, instrument, units, price, pl, type) ==
    [transaction_id |-> id, time |-> time, instrument |-> instrument,
     units |-> units, price |-> price, pl |-> pl, transaction_type |-> type]

\* Intentions as the extractor builds them: executed ones carry the default
\* confidence 0.65, rejected ones the UNKNOWN pair and a reason.
IntentionPool ==
    { BotTradeIntention(0, EUR_USD_pair, "BUY", 65, 115200, None, TRUE),
      BotTradeIntention(0, EUR_USD_pair, "SELL", 65, 115200, None, TRUE),
      BotTradeIntention(0, EUR_USD_pair, "BUY", 65, 0, None, TRUE),
      BotTradeIntention(0, GBP_USD_pair, "BUY", 65, 115200, None, TRUE),
      BotTradeIntention(0, UNKNOWN, "UNKNOWN", 0, 0, Text(<<"Low confidence">>), FALSE) }

\* Ledger entries as fetch_oanda_transactions normalises them; a MARKET_ORDER
\* entry has no price and no pl, which float(tx.get(.., 0)) turns into 0.
TransactionPool ==
    { OANDATransaction("a", 10, EUR_USD, 5000, 115205, 17500, "ORDER_FILL"),
      OANDATransaction("b", 300, EUR_USD, 5000, 115200, -5000, "ORDER_FILL"),
      OANDATransaction("c", 301, EUR_USD, 5000, 115205, 17500, "ORDER_FILL"),
      OANDATransaction("d", 10, EUR_USD, 5000, 115350, 17500, "ORDER_FILL"),
      OANDATransaction("e", 10, EUR_USD, 5000, 0, 0, "MARKET_ORDER"),
      OANDATransaction("f", -10, EUR_USD, -5000, 115205, -5000, "ORDER_FILL") }

----------------------------------------------------------------------------
(* LiveTradingPerformanceAnalyzer._trades_match                            *)
(* "True", "False", or the exception the price division raises.            *)

PairNormalized(intention) == Replace(intention.pair, "/", "_")

time_diff(intention, transaction) ==
    Abs(intention.timestamp - transaction.time)

\* abs(entry - price) / price > 0.001, for price # 0
PriceTooFar(intention, transaction) ==
    IF transaction.price > 0
    THEN Abs(intention.entry_price - transaction.price) * 1000 > transaction.price
    ELSE FALSE   \* a negative quotient is never > 0.001

\* the time window widened by one second
_trades_match_window_301(intention, transaction) ==
    IF PairNormalized(intention) # transaction.instrument THEN "False"
    ELSE IF intention.signal_type = "BUY" /\ transaction.units <= 0 THEN "False"
    ELSE IF intention.signal_type = "SELL" /\ transaction.units >= 0 THEN "False"
    ELSE IF time_diff(intention, transaction) > 301 THEN "False"
    ELSE IF transaction.price = 0 THEN "ZeroDivisionError"
    ELSE IF PriceTooFar(intention, transaction) THEN "False"
    ELSE "True"

_trades_match(intention, transaction) ==
    IF PairNormalized(intention) # transaction.instrument THEN "False"
    ELSE IF intention.signal_type = "BUY" /\ transaction.units <= 0 THEN "False"
    ELSE IF intention.signal_type = "SELL" /\ transaction.units >= 0 THEN "False"
    ELSE IF time_diff(intention, transaction) > 300 THEN "False"
    ELSE IF transaction.price = 0 THEN "ZeroDivisionError"
    ELSE IF PriceTooFar(intention, transaction) THEN "False"
    ELSE "True"

----------------------------------------------------------------------------
(* LiveTradingPerformanceAnalyzer.match_trades                             *)

\* inner loop: index of the first transaction that matches (break), 0 when
\* the loop ends without one, -1 when _trades_match raises on the way
RECURSIVE InnerLoop(_, _, _)
InnerLoop(intention, transactions, k) ==
    IF k > Len(transactions) THEN 0
    ELSE LET r == _trades_match(intention, transactions[k])
         IN IF r = "ZeroDivisionError" THEN -1
            ELSE IF r = "True" THEN k
            ELSE InnerLoop(intention, transactions, k + 1)

MatchedPair(intentions, transactions, n, k) ==
    [intention |-> intentions[n], transaction |-> transactions[k],
     ii |-> n, ti |-> k]

\* outer loop from intention n on, `matches` being the list built so far
RECURSIVE OuterLoop(_, _, _, _)
OuterLoop(intentions, transactions, n, matches) ==
    IF n > Len(intentions) THEN [matches |-> matches, raised |-> "none"]
    ELSE IF ~intentions[n].executed
         THEN OuterLoop(intentions, transactions, n + 1, matches)
    ELSE LET k == InnerLoop(intentions[n], transactions, 1)
         IN IF k = -1 THEN [matches |-> matches, raised |-> "ZeroDivisionError"]
            ELSE IF k = 0 THEN OuterLoop(intentions, transactions, n + 1, matches)
            ELSE OuterLoop(intentions, transactions, n + 1,
                           Append(matches, MatchedPair(intentions, transactions, n, k)))

\* the inner loop without its break: every matching transaction is paired
RECURSIVE PairsNoBreak(_, _, _, _)
PairsNoBreak(intentions, transactions, n, k) ==
    IF n > Len(intentions) THEN <<>>
    ELSE IF k > Len(transactions) \/ ~intentions[n].executed
         THEN PairsNoBreak(intentions, transactions, n + 1, 1)
    ELSE (IF _trades_match(intentions[n], transactions[k]) = "True"
          THEN <<MatchedPair(intentions, transactions, n, k)>> ELSE <<>>)
           \o PairsNoBreak(intentions, transactions, n, k + 1)

MatchResult_no_break(intentions, transactions) ==
    [matches |-> PairsNoBreak(intentions, transactions, 1, 1),
     raised |-> OuterLoop(intentions, transactions, 1, <<>>).raised]

MatchResult(intentions, transactions) ==
    OuterLoop(intentions, transactions, 1, <<>>)

\* the new matches appended to the stored ones instead of replacing them
StoreMatches_extend(old, matches) == old \o matches

\* self.matched_trades = matches
StoreMatches(old, matches) == matches

match_trades ==
    /\ pc \in {"load", "matched"}
    /\ match_calls < MaxMatchCalls
    /\ LET r == MatchResult(bot_intentions, oanda_transactions)
       IN /\ raised' = r.raised
          /\ matched_trades' = IF r.raised = "none"
                               THEN StoreMatches(matched_trades, r.matches)
                               ELSE matched_trades
    /\ pc' = "matched"
    /\ match_calls' = match_calls + 1
    /\ UNCHANGED <<bot_intentions, oanda_transactions, metrics>>
    /\ UNCHANGED <<extractVars, fetchVars, aggVars>>

----------------------------------------------------------------------------
(* LiveTradingPerformanceAnalyzer.calculate_performance_metrics            *)

executed_intentions(intentions) == SelectSeq(intentions, LAMBDA i : i.executed)

IsWinner(m) == m.transaction.pl > 0
IsLoser(m) == m.transaction.pl < 0

winning_trades(matches) == SelectSeq(matches, IsWinner)
losing_trades(matches) == SelectSeq(matches, IsLoser)

\* statistics.mean(xs) if xs else 0
MeanOrZero(xs) == IF xs = <<>> THEN Zero ELSE Ratio(SumSeq(xs), Len(xs))

unexpected_trades(total_oanda_trades, n_matched) == total_oanda_trades - n_matched

PerformanceMetrics(intentions, transactions, matches) ==
    LET executed == executed_intentions(intentions)
        winners == winning_trades(matches)
        losers == losing_trades(matches)
    IN [total_bot_signals |-> Len(intentions),
        total_oanda_trades |-> Len(transactions),
        matched_trades |-> Len(matches),
        missed_opportunities |->
            Len(SelectSeq(intentions, LAMBDA i : ~i.executed)),
        unexpected_trades |-> unexpected_trades(Len(transactions), Len(matches)),
        execution_accuracy |->
            IF executed # <<>> THEN Ratio(Len(matches), Len(executed)) ELSE Zero,
        avg_confidence_winners |->
            MeanOrZero([k \in DOMAIN winners |-> winners[k].intention.confidence]),
        avg_confidence_losers |->
            MeanOrZero([k \in DOMAIN losers |-> losers[k].intention.confidence]),
        bot_win_rate |->
            IF matches # <<>> THEN Ratio(Len(winners), Len(matches)) ELSE Zero,
        actual_win_rate |->
            IF transactions # <<>>
            THEN Ratio(Len(SelectSeq(transactions, LAMBDA t : t.pl > 0)),
                       Len(transactions))
            ELSE Zero,
        predicted_profit |->
            SumSeq([k \in DOMAIN executed |-> executed[k].expected_profit]),
        actual_profit |-> SumSeq([k \in DOMAIN transactions |-> transactions[k].pl]),
        avg_execution_delay |->
            MeanOrZero([k \in DOMAIN matches |->
                matches[k].transaction.time - matches[k].intention.timestamp])]

calculate_performance_metrics ==
    /\ pc \in {"load", "matched"}
    /\ metrics' = PerformanceMetrics(bot_intentions, oanda_transactions,
                                     matched_trades)
    /\ pc' = "metrics"
    /\ UNCHANGED <<bot_intentions, oanda_transactions, matched_trades, raised,
                   match_calls>>
    /\ UNCHANGED <<extractVars, fetchVars, aggVars>>

----------------------------------------------------------------------------
(* Driver: the lists of the analyzer are filled before reconciliation      *)

AddIntention ==
    /\ pc = "load"
    /\ Len(bot_intentions) < MaxIntentions
    /\ \E i \in IntentionPool : bot_intentions' = Append(bot_intentions, i)
    /\ UNCHANGED <<oanda_transactions, matched_trades, metrics, raised, pc,
                   match_calls>>
    /\ UNCHANGED <<extractVars, fetchVars, aggVars>>

AddTransaction ==
    /\ pc = "load"
    /\ Len(oanda_transactions) < MaxTransactions
    /\ \E t \in TransactionPool :
          oanda_transactions' = Append(oanda_transactions, t)
    /\ UNCHANGED <<bot_intentions, matched_trades, metrics, raised, pc,
                   match_calls>>
    /\ UNCHANGED <<extractVars, fetchVars, aggVars>>

Init ==
    /\ bot_intentions = <<>>
    /\ oanda_transactions = <<>>
    /\ matched_trades = <<>>
    /\ metrics = NoMetrics
    /\ raised = "none"
    /\ pc = "load"
    /\ match_calls = 0
    /\ log_content = <<>>
    /\ bot_decisions = <<>>
    /\ ledger = <<>>
    /\ historical_trades = <<>>
    /\ last_fetch = NoFetch
    /\ analysis = NoAnalysis
    /\ df = NoFrame
    /\ results = NoResults
    /\ last_parse = NoParse

NextMatch ==
    \/ AddIntention
    \/ AddTransaction
    \/ match_trades
    \/ calculate_performance_metrics

SpecMatch == Init /\ [][NextMatch]_vars

----------------------------------------------------------------------------
(* Log lines                                                               *)
(* A line is what the extractors can observe of its text: the markers and  *)
(* labels it contains (the `in` tests) and what each regular expression    *)
(* captures from it.                                                       *)

\* what re.search(..) followed by float(..) yields for a numeric field
Num(v) == [kind |-> "num", v |-> v]      \* the pattern matches, float() parses
NoCap == [kind |-> "none", v |-> 0]      \* the pattern does not match
BadFloat == [kind |-> "bad", v |-> 0]    \* [\d.]+ matches, float() raises ValueError

EXECUTED_MARKER == "ULTRA-REFINED TRADE EXECUTED:"
REJECTED_MARKER == "Signal rejected:"

BlankLine ==
    [ts |-> NoCap,            \* (\d{4}-\d{2}-\d{2} \d{2}:\d{2}:\d{2})
     has |-> {},              \* markers and labels contained in the line
     pair |-> <<>>,           \* (\w+/\w+) (\w+), group 1; <<>> when no match
     signal |-> "",           \* (\w+/\w+) (\w+), group 2
     entry |-> NoCap,         \* Entry: ([\d.]+)
     stop |-> NoCap,          \* Stop Loss: ([\d.]+)
     target |-> NoCap,        \* Take Profit: ([\d.]+)
     size |-> NoCap,          \* Position Size: ([\d,]+)
     rr |-> NoCap,            \* Risk/Reward: ([\d.]+), in tenths
     after_rejected |-> <<>>, \* the text that follows "Signal rejected:"
     conf |-> NoCap,          \* Confidence: (\d+)%
     sig_pair |-> <<>>,       \* Signal found for (\w+/\w+):
     sig_type |-> ""]         \* : (\w+) \(

L_exec == [BlankLine EXCEPT !.ts = Num(1), !.has = {EXECUTED_MARKER}]
L_exec_pair == [BlankLine EXCEPT !.ts = Num(3), !.has = {EXECUTED_MARKER},
                                 !.pair = EUR_USD_pair, !.signal = "BUY"]
L_pair == [BlankLine EXCEPT !.ts = Num(1), !.has = {"chart", "|"},
                            !.pair = EUR_USD_pair, !.signal = "BUY"]
L_entry == [BlankLine EXCEPT !.ts = Num(1), !.has = {"Entry:"},
                             !.entry = Num(115200)]
L_entry_bad == [BlankLine EXCEPT !.ts = Num(1), !.has = {"Entry:"},
                                 !.entry = BadFloat]
L_target == [BlankLine EXCEPT !.ts = Num(1), !.has = {"Take Profit:"},
                              !.target = Num(115600)]
L_rr == [BlankLine EXCEPT !.ts = Num(1), !.has = {"Risk/Reward:"}, !.rr = Num(20)]
L_rr_bad == [BlankLine EXCEPT !.ts = Num(1), !.has = {"Risk/Reward:"}]
L_rej == [BlankLine EXCEPT !.ts = Num(2), !.has = {REJECTED_MARKER},
                           !.after_rejected = <<" ", "Low confidence 58%">>]
L_rej_empty == [BlankLine EXCEPT !.has = {REJECTED_MARKER}]
L_rej_rr == [BlankLine EXCEPT !.ts = Num(2),
                              !.has = {REJECTED_MARKER, "Risk/Reward:"},
                              !.after_rejected = <<" ", "Risk/Reward: 1.2 too low">>,
                              !.rr = Num(12)]
L_sig72 == [BlankLine EXCEPT !.ts = Num(0),
                             !.has = {"Signal found for", "Confidence:"},
                             !.conf = Num(72), !.sig_pair = EUR_USD_pair,
                             !.sig_type = "BUY"]
L_sig150 == [BlankLine EXCEPT !.ts = Num(0),
                              !.has = {"Signal found for", "Confidence:"},
                              !.conf = Num(150), !.sig_pair = EUR_USD_pair,
                              !.sig_type = "BUY"]

LinePool == {L_exec, L_exec_pair, L_pair, L_entry, L_entry_bad, L_target, L_rr,
             L_rr_bad, L_rej, L_rej_empty, L_rej_rr, L_sig72, L_sig150}

\* datetime.now(), the fallback of a line without a timestamp
now == 1000

\* datetime.strptime(timestamp_match.group(1), ..) if timestamp_match else datetime.now()
Timestamp(line) == IF line.ts.kind = "num" THEN line.ts.v ELSE now

\* re.search(r'Signal rejected: (.+)', line): a space and at least one more
\* character must follow the colon; group(1) is what follows the space
ReasonMatches(line) ==
    Len(line.after_rejected) >= 2 /\ line.after_rejected[1] = " "

ReasonGroup(line) == Tail(line.after_rejected)

\* the reason taken from the text after the colon whether or not the pattern matched
rejection_reason_no_default(line) == Text(Tail(line.after_rejected \o <<"">>))

\* reason_match.group(1) if reason_match else "Unknown"
rejection_reason(line) ==
    IF ReasonMatches(line) THEN Text(ReasonGroup(line)) ELSE Text(<<"Unknown">>)

----------------------------------------------------------------------------
(* HistoricalPerformanceAnalyzer.parse_bot_decisions                       *)

NoDecision == [none |-> TRUE]

\* the builder created with the live extractor's default confidence 0.65
BotDecision_default_confidence(ts, pair, signal, action, reason) ==
    [timestamp |-> ts, pair |-> pair, signal_type |-> signal, confidence |-> 65,
     entry_price |-> 0, target_price |-> 0, stop_loss |-> 0,
     action_taken |-> action, rejection_reason |-> reason,
     expected_profit |-> 0, risk_reward_ratio |-> 0]

BotDecision(ts, pair, signal, action, reason) ==
    [timestamp |-> ts, pair |-> pair, signal_type |-> signal, confidence |-> 0,
     entry_price |-> 0, target_price |-> 0, stop_loss |-> 0,
     action_taken |-> action, rejection_reason |-> reason,
     expected_profit |-> 0, risk_reward_ratio |-> 0]

\* pips * 10 in cents: pip_size is 0.01 for a JPY pair and 0.0001 otherwise
expected_profit(d) ==
    LET diff == IF d.signal_type = "BUY" THEN d.target_price - d.entry_price
                ELSE d.entry_price - d.target_price
    IN IF "JPY" \in Range(d.pair) THEN diff ELSE diff * 100

\* float(confidence_match.group(1)) / 100, kept in percent
Confidence(line) == line.conf.v

\* one iteration of the loop over the lines; st = [decisions, current]
ParseLine(st, line) ==
    LET cur == st.current
        open == cur # NoDecision
    IN IF EXECUTED_MARKER \in line.has
       THEN [st EXCEPT !.current =
                BotDecision(Timestamp(line), <<>>, "", "EXECUTED", None)]
       ELSE IF open /\ "chart" \in line.has /\ "|" \in line.has
       THEN IF line.pair # <<>>
            THEN [st EXCEPT !.current = [cur EXCEPT !.pair = line.pair,
                                                    !.signal_type = line.signal]]
            ELSE st
       ELSE IF open /\ "Entry:" \in line.has
       THEN IF line.entry.kind = "num"
            THEN [st EXCEPT !.current = [cur EXCEPT !.entry_price = line.entry.v]]
            ELSE st
       ELSE IF open /\ "Stop Loss:" \in line.has
       THEN IF line.stop.kind = "num"
            THEN [st EXCEPT !.current = [cur EXCEPT !.stop_loss = line.stop.v]]
            ELSE st
       ELSE IF open /\ "Take Profit:" \in line.has
       THEN IF line.target.kind = "num"
            THEN [st EXCEPT !.current = [cur EXCEPT !.target_price = line.target.v]]
            ELSE st
       ELSE IF open /\ "Risk/Reward:" \in line.has
       THEN IF line.rr.kind = "num"
            THEN LET d == [cur EXCEPT !.risk_reward_ratio = line.rr.v]
                     sealed == [d EXCEPT !.expected_profit = expected_profit(d)]
                 IN [decisions |-> Append(st.decisions, sealed),
                     current |-> NoDecision]
            ELSE st
       ELSE IF REJECTED_MARKER \in line.has
       THEN [st EXCEPT !.decisions =
                Append(st.decisions,
                       BotDecision(Timestamp(line), UNKNOWN, "UNKNOWN", "REJECTED",
                                   rejection_reason(line)))]
       ELSE IF "Signal found for" \in line.has /\ "Confidence:" \in line.has
       THEN IF line.conf.kind = "num" /\ line.sig_pair # <<>>
                 /\ line.sig_type # "" /\ open
            THEN [st EXCEPT !.current = [cur EXCEPT !.confidence = Confidence(line),
                                                    !.pair = line.sig_pair,
                                                    !.signal_type = line.sig_type]]
            ELSE st
       ELSE st

\* the state of the scan after the first k lines
RECURSIVE ParseState(_, _)
ParseState(lines, k) ==
    IF k = 0 THEN [decisions |-> <<>>, current |-> NoDecision]
    ELSE ParseLine(ParseState(lines, k - 1), lines[k])

\* the builder still open at the end of the text emitted as well
ParseBotDecisions_flush(lines) ==
    LET st == ParseState(lines, Len(lines))
    IN st.decisions \o (IF st.current = NoDecision THEN <<>> ELSE <<st.current>>)

ParseBotDecisions(lines) == ParseState(lines, Len(lines)).decisions

\* `if not log_content: return decisions` leaves self.bot_decisions as it was
parse_bot_decisions ==
    /\ pc = "load"
    /\ bot_decisions' = IF log_content = <<>> THEN bot_decisions
                        ELSE ParseBotDecisions(log_content)
    /\ last_parse' = [call |-> "historical",
                      returned |-> ParseBotDecisions(log_content)]
    /\ pc' = "parsed"
    /\ UNCHANGED <<bot_intentions, oanda_transactions, matched_trades, metrics,
                   raised, match_calls, log_content>>
    /\ UNCHANGED <<fetchVars, aggVars>>

----------------------------------------------------------------------------
(* LiveTradingPerformanceAnalyzer.parse_bot_intentions                     *)

WindowBefore == 5
WindowAfter == 10

\* all_lines.index(line): the first position whose text equals the line's
IndexOf(all_lines, line) ==
    CHOOSE k \in DOMAIN all_lines :
        all_lines[k] = line /\ \A j \in 1..(k - 1) : all_lines[j] # line

\* range(max(0, line_idx - 5), min(len(all_lines), line_idx + 10)), 1-based
Window(all_lines, idx) ==
    { k \in DOMAIN all_lines : idx - WindowBefore <= k /\ k < idx + WindowAfter }

\* trade_details[field] after the scan of the window: the last numeric capture
\* of a line that carries the label, `dflt` when there is none
LastDetail(all_lines, win, label, field, dflt) ==
    LET hits == { k \in win : label \in all_lines[k].has
                              /\ all_lines[k][field].kind = "num" }
    IN IF hits = {} THEN dflt
       ELSE all_lines[CHOOSE k \in hits : \A j \in hits : j <= k][field].v

\* a float() of the window raises ValueError, caught by the method's except
WindowRaises(all_lines, win) ==
    \E k \in win :
        \/ "Entry:" \in all_lines[k].has /\ all_lines[k].entry.kind = "bad"
        \/ "Stop Loss:" \in all_lines[k].has /\ all_lines[k].stop.kind = "bad"
        \/ "Take Profit:" \in all_lines[k].has /\ all_lines[k].target.kind = "bad"
        \/ "Position Size:" \in all_lines[k].has /\ all_lines[k].size.kind = "bad"
        \/ "Risk/Reward:" \in all_lines[k].has /\ all_lines[k].rr.kind = "bad"

\* the intention, or NoDecision for Python's None
_parse_executed_trade(line, all_lines) ==
    LET win == Window(all_lines, IndexOf(all_lines, line))
    IN IF WindowRaises(all_lines, win) THEN NoDecision
       ELSE IF line.pair = <<>> THEN NoDecision
       ELSE [BotTradeIntention(Timestamp(line), line.pair, line.signal, 65,
                               LastDetail(all_lines, win, "Entry:", "entry", 0),
                               None, TRUE)
               EXCEPT !.target_price =
                          LastDetail(all_lines, win, "Take Profit:", "target", 0),
                      !.stop_loss =
                          LastDetail(all_lines, win, "Stop Loss:", "stop", 0),
                      !.expected_units =
                          LastDetail(all_lines, win, "Position Size:", "size", 0),
                      !.risk_reward_ratio =
                          LastDetail(all_lines, win, "Risk/Reward:", "rr", 0)]

_parse_rejected_signal(line, all_lines) ==
    BotTradeIntention(Timestamp(line), UNKNOWN, "UNKNOWN", 0, 0,
                      rejection_reason(line), FALSE)

\* the loop over the lines, from line k on
RECURSIVE IntentionsFrom(_, _)
IntentionsFrom(lines, k) ==
    IF k > Len(lines) THEN <<>>
    ELSE LET line == lines[k]
             intention ==
                 IF EXECUTED_MARKER \in line.has
                 THEN _parse_executed_trade(line, lines)
                 ELSE IF REJECTED_MARKER \in line.has
                 THEN _parse_rejected_signal(line, lines)
                 ELSE NoDecision
         IN (IF intention = NoDecision THEN <<>> ELSE <<intention>>)
              \o IntentionsFrom(lines, k + 1)

ParseBotIntentions(lines) == IntentionsFrom(lines, 1)

\* `if not log_content: return intentions` leaves self.bot_intentions as it was
parse_bot_intentions ==
    /\ pc = "load"
    /\ bot_intentions' = IF log_content = <<>> THEN bot_intentions
                         ELSE ParseBotIntentions(log_content)
    /\ last_parse' = [call |-> "live",
                      returned |-> ParseBotIntentions(log_content)]
    /\ pc' = "parsed"
    /\ UNCHANGED <<oanda_transactions, matched_trades, metrics, raised,
                   match_calls, log_content, bot_decisions>>
    /\ UNCHANGED <<fetchVars, aggVars>>

----------------------------------------------------------------------------
(* Driver of the extractors: the log text is any sequence of pool lines    *)

AppendLine ==
    /\ pc = "load"
    /\ Len(log_content) < MaxLines
    /\ \E line \in LinePool : log_content' = Append(log_content, line)
    /\ UNCHANGED <<bot_intentions, oanda_transactions, matched_trades, metrics,
                   raised, pc, match_calls, bot_decisions, last_parse>>
    /\ UNCHANGED <<fetchVars, aggVars>>

NextExtract ==
    \/ AppendLine
    \/ parse_bot_decisions
    \/ parse_bot_intentions

SpecExtract == Init /\ [][NextExtract]_vars

----------------------------------------------------------------------------
(* Raw ledger entries (the dicts of the broker's JSON response)            *)
(* A numeric or time field is Num(v), NoCap when the key is absent, or     *)
(* BadFloat when its text does not parse.                                  *)

\* float(tx.get(key, 0)) raises ValueError on unparseable text
FloatRaises(field) == field.kind = "bad"
FloatOf(field) == IF field.kind = "num" THEN field.v ELSE 0

\* datetime.fromisoformat(tx.get('time', '').replace('Z', '+00:00')) raises
\* ValueError on unparseable text and on the '' of an absent key
TimeRaises(field) == field.kind # "num"

Absent == [present |-> FALSE, ids |-> <<>>]
Closed(ids) == [present |-> TRUE, ids |-> ids]

RawEntry(type, id, time, units, price, pl, opened, closed) ==
    [type |-> type, id |-> id, time |-> time, instrument |-> EUR_USD,
     units |-> units, price |-> price, pl |-> pl, reason |-> "MARKET_ORDER",
     accountBalance |-> Num(0), tradeOpened |-> opened, tradesClosed |-> closed]

R_order1 == RawEntry("MARKET_ORDER", "1", Num(0), Num(5000), NoCap, NoCap, "", Absent)
R_order2 == RawEntry("MARKET_ORDER", "2", Num(60), Num(-5000), NoCap, NoCap, "", Absent)
R_open1 == RawEntry("ORDER_FILL", "3", Num(10), Num(5000), Num(115205), Num(0),
                    "1", Absent)
R_close1 == RawEntry("ORDER_FILL", "4", Num(3600), Num(-5000), Num(115600),
                     Num(17500), "", Closed(<<"1">>))
R_close1_early == RawEntry("ORDER_FILL", "5", Num(-3600), Num(-5000), Num(115000),
                           Num(-5000), "", Closed(<<"1">>))
R_open2_close1 == RawEntry("ORDER_FILL", "6", Num(7200), Num(-5000), Num(115400),
                           Num(2500), "2", Closed(<<"1">>))
R_fill_no_time == RawEntry("ORDER_FILL", "7", NoCap, Num(-5000), Num(115600),
                           Num(17500), "", Closed(<<"1">>))
R_fill_bad_pl == RawEntry("ORDER_FILL", "8", Num(3600), Num(-5000), Num(115600),
                          BadFloat, "", Closed(<<"1">>))
R_fill_empty_closed == RawEntry("ORDER_FILL", "9", Num(3600), Num(-5000),
                                Num(115600), Num(0), "", Closed(<<>>))
R_limit == RawEntry("LIMIT_ORDER", "10", BadFloat, Num(5000), Num(115000), NoCap,
                    "", Absent)

RawPool == {R_order1, R_order2, R_open1, R_close1, R_close1_early, R_open2_close1,
            R_fill_no_time, R_fill_bad_pl, R_fill_empty_closed, R_limit}

----------------------------------------------------------------------------
(* LiveTradingPerformanceAnalyzer.fetch_oanda_transactions                 *)

LiveKinds == {"ORDER_FILL", "MARKET_ORDER"}

\* building one OANDATransaction raises
LiveEntryRaises(tx) ==
    \/ TimeRaises(tx.time)
    \/ FloatRaises(tx.units) \/ FloatRaises(tx.price) \/ FloatRaises(tx.pl)
    \/ FloatRaises(tx.accountBalance)

LiveTransaction(tx) ==
    OANDATransaction(tx.id, tx.time.v, tx.instrument, FloatOf(tx.units),
                     FloatOf(tx.price), FloatOf(tx.pl), tx.type)

\* the loop over data['transactions'] from entry k on
RECURSIVE LiveLoop(_, _, _)
LiveLoop(entries, k, transactions) ==
    IF k > Len(entries) THEN [raised |-> "none", transactions |-> transactions]
    ELSE IF entries[k].type \notin LiveKinds
         THEN LiveLoop(entries, k + 1, transactions)
    ELSE IF LiveEntryRaises(entries[k])
         THEN [raised |-> "ValueError", transactions |-> <<>>]
    ELSE LiveLoop(entries, k + 1, Append(transactions, LiveTransaction(entries[k])))

\* the try block: response.raise_for_status(), then the loop
FetchOandaTransactions(http_ok, entries) ==
    IF ~http_ok THEN [raised |-> "HTTPError", transactions |-> <<>>]
    ELSE LiveLoop(entries, 1, <<>>)

\* an exception is caught and [] returned, self.oanda_transactions untouched
fetch_oanda_transactions ==
    /\ pc = "load"
    /\ \E http_ok \in BOOLEAN :
          LET r == FetchOandaTransactions(http_ok, ledger)
          IN /\ oanda_transactions' = IF r.raised = "none" THEN r.transactions
                                      ELSE oanda_transactions
             /\ last_fetch' = [call |-> "live", ok |-> http_ok,
                               returned |-> r.transactions]
    /\ pc' = "fetched"
    /\ UNCHANGED <<bot_intentions, matched_trades, metrics, raised, match_calls,
                   ledger, historical_trades>>
    /\ UNCHANGED <<extractVars, aggVars>>

----------------------------------------------------------------------------
(* HistoricalPerformanceAnalyzer.fetch_extended_trade_history              *)

\* Optional[float] / Optional[datetime]
NoValue == [present |-> FALSE, v |-> 0]
Some(v) == [present |-> TRUE, v |-> v]

\* duration_hours is kept in seconds (total_seconds() before the / 3600)
HistoricalTrade(id, open_time, instrument, units, open_price, pl, duration) ==
    [trade_id |-> id, open_time |-> open_time, close_time |-> NoValue,
     instrument |-> instrument, units |-> units, open_price |-> open_price,
     close_price |-> NoValue, pl |-> pl, duration_hours |-> duration,
     trade_type |-> IF units > 0 THEN "BUY" ELSE "SELL", status |-> "OPEN"]

\* position of trade_id among the keys of the dict `trades`, 0 when absent
KeyIndex(trades, trade_id) ==
    IF \E k \in DOMAIN trades : trades[k].trade_id = trade_id
    THEN CHOOSE k \in DOMAIN trades : trades[k].trade_id = trade_id
    ELSE 0

\* trades[trade_id] = trade: a present key keeps its place in the dict
DictPut(trades, trade) ==
    LET k == KeyIndex(trades, trade.trade_id)
    IN IF k = 0 THEN Append(trades, trade) ELSE [trades EXCEPT ![k] = trade]

\* tx.get('tradeOpened', {}).get('tradeID', '') or
\* tx.get('tradesClosed', [{}])[0].get('tradeID', '')
TradeIdRaises(tx) ==
    tx.tradeOpened = "" /\ tx.tradesClosed.present /\ tx.tradesClosed.ids = <<>>

\* the trade id resolved from the closed link first
TradeIdOf_closed_first(tx) ==
    IF tx.tradesClosed.present /\ tx.tradesClosed.ids # <<>> THEN tx.tradesClosed.ids[1]
    ELSE tx.tradeOpened

TradeIdOf(tx) ==
    IF tx.tradeOpened # "" THEN tx.tradeOpened
    ELSE IF tx.tradesClosed.present THEN tx.tradesClosed.ids[1]
    ELSE ""

\* if tx.get('tradesClosed'): a present, non-empty list
ReportsClose(tx) == tx.tradesClosed.present /\ tx.tradesClosed.ids # <<>>

\* duration = close_time - open_time, in seconds
Duration(open_time, close_time) == close_time - open_time

\* one iteration of the loop over the transactions
HistStep(trades, tx) ==
    IF tx.type = "MARKET_ORDER"
    THEN IF FloatRaises(tx.units) \/ TimeRaises(tx.time) \/ FloatRaises(tx.price)
         THEN [raised |-> "ValueError", trades |-> trades]
         ELSE [raised |-> "none",
               trades |-> DictPut(trades,
                   HistoricalTrade(tx.id, tx.time.v, tx.instrument,
                                   FloatOf(tx.units), FloatOf(tx.price), 0,
                                   NoValue))]
    ELSE IF tx.type = "ORDER_FILL"
    THEN IF TradeIdRaises(tx) THEN [raised |-> "IndexError", trades |-> trades]
         ELSE LET k == KeyIndex(trades, TradeIdOf(tx))
              IN IF k = 0 THEN [raised |-> "none", trades |-> trades]
                 ELSE IF FloatRaises(tx.pl)
                      THEN [raised |-> "ValueError", trades |-> trades]
                 ELSE LET t1 == [trades[k] EXCEPT !.pl = @ + FloatOf(tx.pl)]
                      IN IF ~ReportsClose(tx)
                         THEN [raised |-> "none",
                               trades |-> [trades EXCEPT ![k] = t1]]
                         ELSE IF TimeRaises(tx.time) \/ FloatRaises(tx.price)
                         THEN [raised |-> "ValueError", trades |-> trades]
                         ELSE [raised |-> "none",
                               trades |-> [trades EXCEPT ![k] =
                                   [t1 EXCEPT
                                      !.close_time = Some(tx.time.v),
                                      !.close_price = Some(FloatOf(tx.price)),
                                      !.status = "CLOSED",
                                      !.duration_hours =
                                          Some(Duration(t1.open_time, tx.time.v))]]]
    ELSE [raised |-> "none", trades |-> trades]

RECURSIVE HistLoop(_, _, _)
HistLoop(entries, k, trades) ==
    IF k > Len(entries) THEN [raised |-> "none", trades |-> trades]
    ELSE LET r == HistStep(trades, entries[k])
         IN IF r.raised # "none" THEN [raised |-> r.raised, trades |-> <<>>]
            ELSE HistLoop(entries, k + 1, r.trades)

\* currently open trades of the openTrades response
OpenTrade(id, open_time, units, unrealized) ==
    [id |-> id, openTime |-> open_time, instrument |-> EUR_USD,
     currentUnits |-> Num(units), price |-> Num(115205),
     unrealizedPL |-> Num(unrealized)]

OpenTradePool == { OpenTrade("1", Num(0), 5000, 1200),
                   OpenTrade("11", Num(500), -5000, -300),
                   OpenTrade("12", NoCap, 5000, 0) }

OpenTradesResponses ==
    UNION { [1..n -> OpenTradePool] : n \in 0..MaxOpenTrades }

\* _fetch_current_open_trades: appends one trade per entry until one raises
RECURSIVE AppendOpenTrades(_, _, _)
AppendOpenTrades(trades, open_trades, k) ==
    IF k > Len(open_trades) THEN trades
    ELSE LET o == open_trades[k]
         IN IF TimeRaises(o.openTime) THEN trades
            ELSE AppendOpenTrades(
                     Append(trades,
                            HistoricalTrade(o.id, o.openTime.v, o.instrument,
                                            FloatOf(o.currentUnits), FloatOf(o.price),
                                            FloatOf(o.unrealizedPL),
                                            Some(Duration(o.openTime.v, now)))),
                     open_trades, k + 1)

_fetch_current_open_trades(trades, status_200, open_trades) ==
    IF status_200 THEN AppendOpenTrades(trades, open_trades, 1) ELSE trades

\* an exception is caught and [] returned, self.historical_trades untouched
fetch_extended_trade_history ==
    /\ pc = "load"
    /\ \E http_ok \in BOOLEAN, status_200 \in BOOLEAN,
          open_trades \in OpenTradesResponses :
          LET r == IF http_ok THEN HistLoop(ledger, 1, <<>>)
                   ELSE [raised |-> "HTTPError", trades |-> <<>>]
              stored == _fetch_current_open_trades(r.trades, status_200, open_trades)
          IN /\ historical_trades' = IF r.raised = "none" THEN stored
                                     ELSE historical_trades
             /\ last_fetch' = [call |-> "historical", ok |-> http_ok,
                               returned |-> IF r.raised = "none" THEN stored
                                            ELSE <<>>]
    /\ pc' = "fetched"
    /\ UNCHANGED <<bot_intentions, oanda_transactions, matched_trades, metrics,
                   raised, match_calls, ledger>>
    /\ UNCHANGED <<extractVars, aggVars>>

----------------------------------------------------------------------------
(* Driver of the normalisers: the response is any sequence of pool entries *)

AddEntry ==
    /\ pc = "load"
    /\ Len(ledger) < MaxEntries
    /\ \E tx \in RawPool : ledger' = Append(ledger, tx)
    /\ UNCHANGED <<reconVars, extractVars, historical_trades, last_fetch, aggVars>>

NextFetch ==
    \/ AddEntry
    \/ fetch_oanda_transactions
    \/ fetch_extended_trade_history

SpecFetch == Init /\ [][NextFetch]_vars

----------------------------------------------------------------------------
(* HistoricalPerformanceAnalyzer.analyze_what_worked_vs_failed             *)

MaxTrades == 3
MaxDecisions == 1

GBP_USD == <<"GBP", "_", "USD">>

\* float('inf') and float('nan') as quotients with denominator 0
Infinity == Ratio(1, 0)
NaN == Ratio(0, 0)

\* a trade as the ORDER_FILL branch leaves it once a fill reported its close
ClosedTrade(id, instrument, open_time, close_time, units, pl) ==
    [HistoricalTrade(id, open_time, instrument, units, 0, pl,
                     Some(Duration(open_time, close_time)))
       EXCEPT !.close_time = Some(close_time), !.close_price = Some(115600),
              !.status = "CLOSED"]

\* Trades as fetch_extended_trade_history stores them: closed ones, one still
\* open in the ledger, one appended from the openTrades response.
TradePool ==
    { ClosedTrade("1", EUR_USD, 0, 3600, 5000, 10000),
      ClosedTrade("2", GBP_USD, 3600, 7200, 5000, 10000),
      ClosedTrade("3", EUR_USD, 90000, 93600, -5000, -5000),
      ClosedTrade("4", GBP_USD, 0, 0, 5000, 0),
      HistoricalTrade("5", 7200, EUR_USD, 5000, 0, 0, NoValue),
      HistoricalTrade("11", 500, EUR_USD, -5000, 115205, -300,
                      Some(Duration(500, now))) }

\* Decisions as parse_bot_decisions emits them
DecisionPool ==
    { [BotDecision(1, EUR_USD_pair, "BUY", "EXECUTED", None)
         EXCEPT !.confidence = 72, !.entry_price = 115200],
      [BotDecision(1, EUR_USD_pair, "BUY", "EXECUTED", None)
         EXCEPT !.entry_price = 115200],
      BotDecision(2, UNKNOWN, "UNKNOWN", "REJECTED", Text(<<"Low confidence 58%">>)) }

closed_trades(trades) == SelectSeq(trades, LAMBDA t : t.status = "CLOSED")
open_trades(trades) == SelectSeq(trades, LAMBDA t : t.status = "OPEN")
winners(closed) == SelectSeq(closed, LAMBDA t : t.pl > 0)
losers(closed) == SelectSeq(closed, LAMBDA t : t.pl < 0)

PlOf(trades) == [k \in DOMAIN trades |-> trades[k].pl]

\* abs(sum(winners) / sum(losers)) if losers and sum(losers) != 0 else inf
profit_factor(closed) ==
    LET won == SumSeq(PlOf(winners(closed)))
        lost == SumSeq(PlOf(losers(closed)))
    IN IF losers(closed) # <<>> /\ lost # 0 THEN Ratio(Abs(won), Abs(lost))
       ELSE Infinity

\* a defaultdict in insertion order: position of the key, 0 when absent
RowIndex(rows, key) ==
    IF \E k \in DOMAIN rows : rows[k].key = key
    THEN CHOOSE k \in DOMAIN rows : rows[k].key = key
    ELSE 0

\* trade.instrument.replace('_', '/')
PairKey(trade) == Replace(trade.instrument, "_", "/")

\* the row of a key met again started afresh instead of added to
PairRowAdd_overwrite(rows, key, pl) ==
    LET k == RowIndex(rows, key)
        row == [key |-> key, trades |-> 1, profit |-> pl,
                wins |-> IF pl > 0 THEN 1 ELSE 0]
    IN IF k = 0 THEN Append(rows, row) ELSE [rows EXCEPT ![k] = row]

\* pair_performance[pair]['trades'] += 1, ['profit'] += pl, ['wins'] += 1 if pl > 0
PairRowAdd(rows, key, pl) ==
    LET k == RowIndex(rows, key)
        old == IF k = 0 THEN [key |-> key, trades |-> 0, profit |-> 0, wins |-> 0]
               ELSE rows[k]
        row == [old EXCEPT !.trades = @ + 1, !.profit = @ + pl,
                           !.wins = @ + (IF pl > 0 THEN 1 ELSE 0)]
    IN IF k = 0 THEN Append(rows, row) ELSE [rows EXCEPT ![k] = row]

\* pair_performance after the first n closed trades
RECURSIVE pair_performance(_, _)
pair_performance(closed, n) ==
    IF n = 0 THEN <<>>
    ELSE PairRowAdd(pair_performance(closed, n - 1), PairKey(closed[n]),
                    closed[n].pl)

\* hour_performance[hour] / day_performance[day]: 'trades' += 1, 'profit' += pl
TimeRowAdd(rows, key, pl) ==
    LET k == RowIndex(rows, key)
        old == IF k = 0 THEN [key |-> key, trades |-> 0, profit |-> 0]
               ELSE rows[k]
        row == [old EXCEPT !.trades = @ + 1, !.profit = @ + pl]
    IN IF k = 0 THEN Append(rows, row) ELSE [rows EXCEPT ![k] = row]

\* trade.open_time.hour
Hour(t) == (t \div 3600) % 24

\* trade.open_time.strftime('%A'); second 0 of the clock falls on a Monday
Weekdays == <<"Monday", "Tuesday", "Wednesday", "Thursday", "Friday",
              "Saturday", "Sunday">>
DayName(t) == Weekdays[((t \div 86400) % 7) + 1]

RECURSIVE hour_performance(_, _)
hour_performance(closed, n) ==
    IF n = 0 THEN <<>>
    ELSE TimeRowAdd(hour_performance(closed, n - 1), Hour(closed[n].open_time),
                    closed[n].pl)

RECURSIVE day_performance(_, _)
day_performance(closed, n) ==
    IF n = 0 THEN <<>>
    ELSE TimeRowAdd(day_performance(closed, n - 1), DayName(closed[n].open_time),
                    closed[n].pl)

\* sorted(rows, key=profit, reverse=desc): stable, so rows of equal profit keep
\* the order in which their keys entered the dict
InsertSorted(sorted, row, desc) ==
    LET n == Cardinality({k \in DOMAIN sorted :
                             IF desc THEN sorted[k].profit >= row.profit
                             ELSE sorted[k].profit <= row.profit})
    IN SubSeq(sorted, 1, n) \o <<row>> \o SubSeq(sorted, n + 1, Len(sorted))

RECURSIVE SortedByProfit(_, _, _)
SortedByProfit(rows, n, desc) ==
    IF n = 0 THEN <<>>
    ELSE InsertSorted(SortedByProfit(rows, n - 1, desc), rows[n], desc)

\* the slice [:3]
TopN == 3
Top(rows) == SubSeq(rows, 1, IF Len(rows) < TopN THEN Len(rows) ELSE TopN)

best(rows) == Top(SortedByProfit(rows, Len(rows), TRUE))
worst(rows) == Top(SortedByProfit(rows, Len(rows), FALSE))

\* f"{hour}:00"
HourLabel(rows) ==
    [k \in DOMAIN rows |-> [rows[k] EXCEPT !.key = <<rows[k].key, ":00">>]]

\* [t.duration_hours for t in trades if t.duration_hours]: a None and a 0.0
\* are both falsy
TruthyDurations(trades) ==
    LET kept == SelectSeq(trades, LAMBDA t : t.duration_hours.present
                                             /\ t.duration_hours.v # 0)
    IN [k \in DOMAIN kept |-> kept[k].duration_hours.v]

\* statistics.mean of an empty list raises StatisticsError
DurationRaises(closed) ==
    /\ TruthyDurations(closed) # <<>>
    /\ \/ winners(closed) # <<>> /\ TruthyDurations(winners(closed)) = <<>>
       \/ losers(closed) # <<>> /\ TruthyDurations(losers(closed)) = <<>>

NoDict == [empty |-> TRUE]

duration_analysis(closed) ==
    IF TruthyDurations(closed) = <<>> THEN NoDict
    ELSE [avg_duration_hours |-> MeanOrZero(TruthyDurations(closed)),
          avg_winner_duration |-> MeanOrZero(TruthyDurations(winners(closed))),
          avg_loser_duration |-> MeanOrZero(TruthyDurations(losers(closed)))]

executed_decisions(decisions) ==
    SelectSeq(decisions, LAMBDA d : d.action_taken = "EXECUTED")
rejected_decisions(decisions) ==
    SelectSeq(decisions, LAMBDA d : d.action_taken = "REJECTED")

PositiveConfidences(decisions) ==
    LET kept == SelectSeq(decisions, LAMBDA d : d.confidence > 0)
    IN [k \in DOMAIN kept |-> kept[k].confidence]

\* statistics.mean([d.confidence .. if d.confidence > 0]) if executed_decisions
BotAnalysisRaises(decisions) ==
    /\ executed_decisions(decisions) # <<>>
    /\ PositiveConfidences(executed_decisions(decisions)) = <<>>

\* decision.rejection_reason or 'Unknown'
ReasonKey(d) ==
    IF d.rejection_reason.present /\ d.rejection_reason.text # <<>>
    THEN d.rejection_reason.text ELSE <<"Unknown">>

\* rejection_reasons[reason] += 1 over the first n rejected decisions
RECURSIVE rejection_reasons(_, _)
rejection_reasons(rejected, n) ==
    IF n = 0 THEN <<>>
    ELSE LET rows == rejection_reasons(rejected, n - 1)
             key == ReasonKey(rejected[n])
             k == RowIndex(rows, key)
         IN IF k = 0 THEN Append(rows, [key |-> key, count |-> 1])
            ELSE [rows EXCEPT ![k].count = @ + 1]

bot_analysis(decisions) ==
    IF decisions = <<>> THEN NoDict
    ELSE LET executed == executed_decisions(decisions)
             rejected == rejected_decisions(decisions)
         IN [total_decisions |-> Len(decisions),
             executed_count |-> Len(executed),
             rejected_count |-> Len(rejected),
             execution_rate |-> Ratio(Len(executed), Len(decisions)),
             avg_confidence_executed |->
                 MeanOrZero(PositiveConfidences(executed)),
             rejection_reasons |-> rejection_reasons(rejected, Len(rejected))]

\* (t.instrument.replace('_', '/'), t.trade_type, t.pl, t.duration_hours)
Positions(open) ==
    [k \in DOMAIN open |-> <<PairKey(open[k]), open[k].trade_type, open[k].pl,
                             open[k].duration_hours>>]

\* the dict the method returns
AnalyzeWhatWorkedVsFailed(trades, decisions) ==
    LET closed == closed_trades(trades)
        open == open_trades(trades)
        pairs == pair_performance(closed, Len(closed))
        hours == hour_performance(closed, Len(closed))
        days == day_performance(closed, Len(closed))
    IN IF trades = <<>> THEN [error |-> "No historical trades to analyze"]
       ELSE IF DurationRaises(closed) \/ BotAnalysisRaises(decisions)
       THEN [error |-> "mean requires at least one data point"]
       ELSE [overall_performance |->
                [total_trades |-> Len(closed),
                 open_trades |-> Len(open),
                 win_rate |-> IF Len(closed) > 0
                              THEN Ratio(Len(winners(closed)), Len(closed))
                              ELSE Zero,
                 total_profit |-> SumSeq(PlOf(closed)),
                 avg_winner |-> MeanOrZero(PlOf(winners(closed))),
                 avg_loser |-> MeanOrZero(PlOf(losers(closed))),
                 profit_factor |-> profit_factor(closed)],
             pair_analysis |->
                [best_performing |-> best(pairs),
                 worst_performing |-> worst(pairs)],
             time_analysis |->
                [best_hours |-> HourLabel(best(hours)),
                 worst_hours |-> HourLabel(worst(hours)),
                 best_days |-> best(days),
                 worst_days |-> worst(days)],
             duration_analysis |-> duration_analysis(closed),
             bot_analysis |-> bot_analysis(decisions),
             current_positions |->
                [count |-> Len(open),
                 total_unrealized_pl |-> SumSeq(PlOf(open)),
                 positions |-> Positions(open)]]

analyze_what_worked_vs_failed ==
    /\ pc = "load"
    /\ analysis' = AnalyzeWhatWorkedVsFailed(historical_trades, bot_decisions)
    /\ pc' = "analyzed"
    /\ UNCHANGED <<bot_intentions, oanda_transactions, matched_trades, metrics,
                   raised, match_calls>>
    /\ UNCHANGED <<extractVars, fetchVars, df, results>>

----------------------------------------------------------------------------
(* Driver of the aggregator: the stored trades and decisions               *)

\* the trades come from the values of a dict, so their ids differ
AddTrade ==
    /\ pc = "load"
    /\ Len(historical_trades) < MaxTrades
    /\ \E t \in TradePool :
          /\ \A k \in DOMAIN historical_trades :
                historical_trades[k].trade_id # t.trade_id
          /\ historical_trades' = Append(historical_trades, t)
    /\ UNCHANGED <<reconVars, extractVars, ledger, last_fetch, aggVars>>

AddDecision ==
    /\ pc = "load"
    /\ Len(bot_decisions) < MaxDecisions
    /\ \E d \in DecisionPool : bot_decisions' = Append(bot_decisions, d)
    /\ UNCHANGED <<reconVars, log_content, last_parse, fetchVars, aggVars>>

NextAnalyze ==
    \/ AddTrade
    \/ AddDecision
    \/ analyze_what_worked_vs_failed

SpecAnalyze == Init /\ [][NextAnalyze]_vars

----------------------------------------------------------------------------
(* ConfidenceWinRateAnalyzer                                               *)
(* self.df is kept by columns; a column that was never assigned is         *)
(* NoColumn. Confidences are in percent.                                   *)

MaxRows == 3

Column(values) == [present |-> TRUE, values |-> values]

DataFrame(pls) ==
    [loaded |-> TRUE, PL_NUMERIC |-> pls, SIMULATED_CONFIDENCE |-> NoColumn,
     CONFIDENCE_BIN |-> NoColumn]

\* the PL column of the CSV after pd.to_numeric(..).fillna(0), in cents
PlPool == {5000, -5000, 0}

Frames == UNION { [1..n -> PlPool] : n \in 0..MaxRows }

\* load_oanda_data: pd.read_csv and the PL_NUMERIC column
load_oanda_data ==
    /\ pc = "load"
    /\ ~df.loaded
    /\ \E pls \in Frames : df' = DataFrame(pls)
    /\ UNCHANGED <<reconVars, extractVars, fetchVars, analysis, results>>

\* base_confidence after the pair, size, hour, random and P&L factors: any
\* value, np.random.normal being one of the summands
BasePool == {40, 50, 72, 98}

\* max(0.45, min(0.95, base_confidence))
Clamp(base) ==
    LET capped == IF base < 95 THEN base ELSE 95
    IN IF capped > 45 THEN capped ELSE 45

\* simulate_confidence_levels: the column is assigned before the print whose
\* min(confidence_scores) raises ValueError on an empty frame
simulate_confidence_levels ==
    /\ pc = "load"
    /\ df.loaded
    /\ ~df.SIMULATED_CONFIDENCE.present
    /\ \E bases \in [DOMAIN df.PL_NUMERIC -> BasePool] :
          df' = [df EXCEPT !.SIMULATED_CONFIDENCE =
                    Column([k \in DOMAIN bases |-> Clamp(bases[k])])]
    /\ raised' = IF df.PL_NUMERIC = <<>> THEN "ValueError" ELSE "none"
    /\ UNCHANGED <<bot_intentions, oanda_transactions, matched_trades, metrics,
                   pc, match_calls>>
    /\ UNCHANGED <<extractVars, fetchVars, analysis, results>>

\* self.confidence_bins
confidence_bins == <<50, 60, 65, 70, 75, 80, 85, 90, 95, 100>>

Categories == 1..(Len(confidence_bins) - 1)

\* f"{bins[i]:.0%}-{bins[i+1]:.0%}"
BinLabel(i) == <<confidence_bins[i], "%-", confidence_bins[i + 1], "%">>

\* the label of a value outside every interval (NaN category)
NoLabel == <<>>

\* pd.cut(.., bins, labels): intervals open on the left, closed on the right,
\* the lowest edge not included
Cut(c) ==
    IF \E i \in Categories : confidence_bins[i] < c /\ c <= confidence_bins[i + 1]
    THEN BinLabel(CHOOSE i \in Categories :
                      confidence_bins[i] < c /\ c <= confidence_bins[i + 1])
    ELSE NoLabel

\* Series.mean(): NaN for an empty selection
Mean(xs) == Ratio(SumSeq(xs), Len(xs))

IsNaN(r) == r.num = 0 /\ r.den = 0

\* abs(avg_winner / avg_loser) if avg_loser != 0 else 0; NaN != 0 is True
BinProfitFactor(avg_winner, avg_loser) ==
    IF IsNaN(avg_loser) THEN NaN
    ELSE IF avg_loser.num # 0
    THEN Ratio(Abs(avg_winner.num * avg_loser.den),
               Abs(avg_winner.den * avg_loser.num))
    ELSE Zero

\* the positions 1..n of the frame's rows, in order
PositionsTo(n) == [k \in 1..n |-> k]

\* one dict of bin_analysis, for the rows `idx` of the bin
BinRow(label, pls, confs, idx) ==
    LET bin_pl == [k \in DOMAIN idx |-> pls[idx[k]]]
        positive == SelectSeq(bin_pl, LAMBDA x : x > 0)
        negative == SelectSeq(bin_pl, LAMBDA x : x < 0)
        total_trades == Len(idx)
        winning == Len(positive)
        avg_winner == IF winning > 0 THEN Mean(positive) ELSE Zero
        avg_loser == IF total_trades - winning > 0 THEN Mean(negative) ELSE Zero
    IN [confidence_range |-> label,
        avg_confidence |-> Mean([k \in DOMAIN idx |-> confs[idx[k]]]),
        total_trades |-> total_trades,
        winning_trades |-> winning,
        win_rate |-> IF total_trades > 0 THEN Ratio(winning, total_trades) ELSE Zero,
        total_pnl |-> SumSeq(bin_pl),
        avg_winner |-> avg_winner,
        avg_loser |-> avg_loser,
        profit_factor |-> BinProfitFactor(avg_winner, avg_loser)]

\* the loop over the categories from category i on; empty bins are skipped
RECURSIVE bin_analysis(_, _, _, _)
bin_analysis(pls, confs, bins, i) ==
    IF i > Len(confidence_bins) - 1 THEN <<>>
    ELSE LET idx == SelectSeq(PositionsTo(Len(pls)),
                              LAMBDA k : bins[k] = BinLabel(i))
         IN (IF idx = <<>> THEN <<>>
             ELSE <<BinRow(BinLabel(i), pls, confs, idx)>>)
              \o bin_analysis(pls, confs, bins, i + 1)

\* Series.corr: Pearson's coefficient is cov / sqrt(var_x * var_y), kept as
\* its three exact ingredients (each times n*n); NaN when a variance is 0
Correlation(xs, ys) ==
    LET n == Len(xs)
        sx == SumSeq(xs)
        sy == SumSeq(ys)
    IN [cov |-> n * SumSeq([k \in DOMAIN xs |-> xs[k] * ys[k]]) - sx * sy,
        var_x |-> n * SumSeq([k \in DOMAIN xs |-> xs[k] * xs[k]]) - sx * sx,
        var_y |-> n * SumSeq([k \in DOMAIN ys |-> ys[k] * ys[k]]) - sy * sy]

\* Series.std(): the square root of this sample variance; NaN for one row
SampleVariance(xs) ==
    Ratio(Len(xs) * SumSeq([k \in DOMAIN xs |-> xs[k] * xs[k]])
            - SumSeq(xs) * SumSeq(xs),
          Len(xs) * (Len(xs) - 1))

\* the dict the method returns for a frame with at least one row
AnalyzeConfidenceVsWinrate(pls, confs, bins) ==
    LET wins == [k \in DOMAIN pls |-> IF pls[k] > 0 THEN 1 ELSE 0]
    IN [bin_analysis |-> bin_analysis(pls, confs, bins, 1),
        correlation |-> Correlation(confs, wins),
        overall_stats |->
            [total_trades |-> Len(pls),
             overall_win_rate |-> Ratio(SumSeq(wins), Len(pls)),
             avg_confidence |-> Mean(confs),
             confidence_std |-> SampleVariance(confs)]]

\* {} for self.df None; KeyError without the SIMULATED_CONFIDENCE column;
\* ZeroDivisionError from len(..) / len(self.df) on an empty frame, after the
\* CONFIDENCE_BIN column was assigned
analyze_confidence_vs_winrate ==
    /\ pc = "load"
    /\ IF ~df.loaded
       THEN /\ results' = NoDict
            /\ raised' = "none"
            /\ df' = df
       ELSE IF ~df.SIMULATED_CONFIDENCE.present
       THEN /\ results' = results
            /\ raised' = "KeyError"
            /\ df' = df
       ELSE LET confs == df.SIMULATED_CONFIDENCE.values
                bins == [k \in DOMAIN confs |-> Cut(confs[k])]
            IN /\ df' = [df EXCEPT !.CONFIDENCE_BIN = Column(bins)]
               /\ IF df.PL_NUMERIC = <<>>
                  THEN results' = results /\ raised' = "ZeroDivisionError"
                  ELSE /\ results' = AnalyzeConfidenceVsWinrate(df.PL_NUMERIC,
                                                               confs, bins)
                       /\ raised' = "none"
    /\ pc' = "analyzed"
    /\ UNCHANGED <<bot_intentions, oanda_transactions, matched_trades, metrics,
                   match_calls>>
    /\ UNCHANGED <<extractVars, fetchVars, analysis>>

NextConfidence ==
    \/ load_oanda_data
    \/ simulate_confidence_levels
    \/ analyze_confidence_vs_winrate

SpecConfidence == Init /\ [][NextConfidence]_vars

----------------------------------------------------------------------------
(* Properties of the reconciler, checked under SpecMatch                   *)

Matched(k) == \E p \in DOMAIN matched_trades : matched_trades[p].ti = k
Paired(n) == \E p \in DOMAIN matched_trades : matched_trades[p].ii = n
PairsOfTransaction(k) == {p \in DOMAIN matched_trades : matched_trades[p].ti = k}
PairsOfIntention(n) == {p \in DOMAIN matched_trades : matched_trades[p].ii = n}

\* match_trades has run and returned
MatchReturned == match_calls > 0 /\ raised = "none"

\* C1: after match_trades no transaction appears in more than one pair of
\* matched_trades.
C1_NoTransactionClaimedTwice ==
    MatchReturned =>
        \A p, q \in DOMAIN matched_trades :
            p # q => matched_trades[p].ti # matched_trades[q].ti

\* C2: after match_trades and calculate_performance_metrics every intention is
\* in exactly one of matched / rejected-or-held / executed-but-unclaimed, every
\* transaction in exactly one of matched / unexplained, and the reported
\* partition sizes add up to the input sizes.
C2_DisjointCover ==
    (MatchReturned /\ pc = "metrics") =>
        LET unclaimed == {n \in DOMAIN bot_intentions :
                             bot_intentions[n].executed /\ ~Paired(n)}
            unexplained == {k \in DOMAIN oanda_transactions : ~Matched(k)}
            claimed == {k \in DOMAIN oanda_transactions : Matched(k)}
        IN /\ \A n \in DOMAIN bot_intentions :
                  Cardinality(PairsOfIntention(n))
                    + (IF ~bot_intentions[n].executed THEN 1 ELSE 0)
                    + (IF n \in unclaimed THEN 1 ELSE 0) = 1
           /\ \A k \in DOMAIN oanda_transactions :
                  Cardinality(PairsOfTransaction(k))
                    + (IF k \in unexplained THEN 1 ELSE 0) = 1
           /\ metrics.matched_trades + metrics.missed_opportunities
                + Cardinality(unclaimed) = Len(bot_intentions)
           /\ metrics.matched_trades = Cardinality(claimed)
           /\ metrics.unexpected_trades = Cardinality(unexplained)
           /\ metrics.matched_trades + metrics.unexpected_trades
                = Len(oanda_transactions)

\* the candidate predicates of the reconciler, as the specification lists them
Candidate(i, t) ==
    /\ i.executed
    /\ Replace(i.pair, "/", "_") = t.instrument
    /\ (i.signal_type = "BUY" => t.units > 0)
    /\ (i.signal_type = "SELL" => t.units < 0)
    /\ Abs(i.timestamp - t.time) <= 300
    /\ t.price > 0
    /\ Abs(i.entry_price - t.price) * 1000 <= t.price

\* C3: every pair placed in matched_trades satisfies all candidate predicates
\* at once (executed, instrument equal after normalising the separator,
\* direction consistent, time difference <= 300 s, price difference <= 0.1%);
\* and an executed intention is left without a pair only when no transaction
\* satisfies them, so a difference of exactly 300 s is accepted.
C3_PairsSatisfyPredicates ==
    /\ \A p \in DOMAIN matched_trades :
          Candidate(matched_trades[p].intention, matched_trades[p].transaction)
    /\ MatchReturned =>
          \A n \in DOMAIN bot_intentions :
              (bot_intentions[n].executed /\ ~Paired(n)) =>
                  \A k \in DOMAIN oanda_transactions :
                      ~Candidate(bot_intentions[n], oanda_transactions[k])

\* a pair whose time difference is exactly 300 s was placed, next to a
\* transaction 301 s away that was not
C3_Witness ==
    /\ MatchReturned
    /\ \E p \in DOMAIN matched_trades :
          Abs(matched_trades[p].intention.timestamp
                - matched_trades[p].transaction.time) = 300
    /\ \E k \in DOMAIN oanda_transactions :
          oanda_transactions[k].time = 301 /\ ~Matched(k)

\* C4: match_trades never raises on a malformed record: a transaction whose
\* price is missing (0) or an intention whose entry_price is missing (0) fails
\* the predicates and stays unexplained / unmatched.
C4_NeverRaisesOnMalformed ==
    match_calls > 0 =>
        /\ raised = "none"
        /\ \A p \in DOMAIN matched_trades :
              /\ matched_trades[p].transaction.price # 0
              /\ matched_trades[p].intention.entry_price # 0

\* C6: a second match_trades on unchanged lists leaves matched_trades as the
\* first call set it: the result is replaced by an equal one, not extended.
C6_RepeatableMatch ==
    [][(match_calls >= 1 /\ match_calls' = match_calls + 1)
          => (matched_trades' = matched_trades /\ raised' = raised)]_vars

C6_Witness ==
    match_calls = 2 /\ raised = "none" /\ Len(matched_trades) = 2

\* C7: the executed BUY intention (entry 1.15200) and the transaction 10 s
\* later at 1.15205 with pl = +175.00 are matched, the transaction adds 175.00
\* to the actual profit and 1 to the winning matched trades; and every matched
\* transaction with pl > 0 counts exactly once as a winner.
C7_WinnerCountedOnce ==
    (MatchReturned /\ pc = "metrics") =>
        /\ \A n \in DOMAIN bot_intentions, k \in DOMAIN oanda_transactions :
              ( /\ Len(oanda_transactions) = 1
                /\ bot_intentions[n] =
                     BotTradeIntention(0, EUR_USD_pair, "BUY", 65, 115200, None, TRUE)
                /\ oanda_transactions[k] =
                     OANDATransaction("a", 10, EUR_USD, 5000, 115205, 17500,
                                      "ORDER_FILL") )
              => ( /\ \E p \in DOMAIN matched_trades :
                         matched_trades[p].ii = n /\ matched_trades[p].ti = k
                   /\ metrics.actual_profit = 17500 )
        /\ metrics.bot_win_rate.num =
              Cardinality({k \in DOMAIN oanda_transactions :
                              Matched(k) /\ oanda_transactions[k].pl > 0})

----------------------------------------------------------------------------
(* Properties of the extractors, checked under SpecExtract                 *)

NonEmptyText(r) == r.present /\ \E k \in DOMAIN r.text : r.text[k] # ""

\* C8: every Intention emitted with outcome REJECTED has a non-empty
\* rejection_reason, also for a rejected-marker line with nothing after the
\* colon, and no Intention with another outcome carries a rejection_reason.
C8_RejectedHasReason ==
    /\ \A k \in DOMAIN bot_decisions :
          IF bot_decisions[k].action_taken = "REJECTED"
          THEN NonEmptyText(bot_decisions[k].rejection_reason)
          ELSE bot_decisions[k].rejection_reason = None
    /\ \A k \in DOMAIN bot_intentions :
          IF ~bot_intentions[k].executed
          THEN NonEmptyText(bot_intentions[k].rejection_reason)
          ELSE bot_intentions[k].rejection_reason = None

\* an extractor has emitted a REJECTED record from a log holding a marker line
\* with nothing after the colon, next to an EXECUTED record
C8_Witness ==
    /\ pc = "parsed"
    /\ L_rej_empty \in Range(log_content)
    /\ \/ /\ \E k \in DOMAIN bot_decisions :
                bot_decisions[k].action_taken = "REJECTED"
          /\ \E k \in DOMAIN bot_decisions :
                bot_decisions[k].action_taken = "EXECUTED"
       \/ /\ \E k \in DOMAIN bot_intentions : ~bot_intentions[k].executed
          /\ \E k \in DOMAIN bot_intentions : bot_intentions[k].executed

\* C9: every Intention emitted with outcome EXECUTED has entry_price > 0 (the
\* records carry no flag that marks them incomplete).
C9_ExecutedHasEntryPrice ==
    /\ \A k \in DOMAIN bot_decisions :
          bot_decisions[k].action_taken = "EXECUTED"
              => bot_decisions[k].entry_price > 0
    /\ \A k \in DOMAIN bot_intentions :
          bot_intentions[k].executed => bot_intentions[k].entry_price > 0

\* C10: the confidence of every emitted Intention is a fraction in [0,1]
\* (0..100 percent), whatever integer percentage the signal-found line shows.
C10_ConfidenceIsFraction ==
    /\ \A k \in DOMAIN bot_decisions :
          bot_decisions[k].confidence >= 0 /\ bot_decisions[k].confidence <= 100
    /\ \A k \in DOMAIN bot_intentions :
          bot_intentions[k].confidence >= 0 /\ bot_intentions[k].confidence <= 100

----------------------------------------------------------------------------
(* Properties of the normalisers, checked under SpecFetch                  *)

\* the entry is of a kind the called normaliser turns into a record, and
\* every field the normaliser reads from it parses
WellFormedFor(call, tx) ==
    IF call = "live"
    THEN tx.type \in LiveKinds /\ ~LiveEntryRaises(tx)
    ELSE /\ tx.type = "MARKET_ORDER"
         /\ ~(FloatRaises(tx.units) \/ TimeRaises(tx.time) \/ FloatRaises(tx.price))

ReturnedIds ==
    {(IF last_fetch.call = "live" THEN last_fetch.returned[j].transaction_id
      ELSE last_fetch.returned[j].trade_id) : j \in DOMAIN last_fetch.returned}

\* C5: when one entry of a recognised kind fails to parse, the normaliser
\* still returns the records built from every other entry of the batch.
C5_BadEntryDoesNotAbortBatch ==
    (pc = "fetched" /\ last_fetch.ok) =>
        \A k \in DOMAIN ledger :
            WellFormedFor(last_fetch.call, ledger[k]) => ledger[k].id \in ReturnedIds

\* C11: every normalised trade that a closing fill marked CLOSED and that
\* carries a duration has a duration >= 0, whatever the ledger, also when the
\* closing fill's time is earlier than the trade's open time.
C11_CloseDurationNonNegative ==
    \A k \in DOMAIN historical_trades :
        (historical_trades[k].status = "CLOSED"
           /\ historical_trades[k].duration_hours.present)
            => historical_trades[k].duration_hours.v >= 0

----------------------------------------------------------------------------
(* First-fit assignment of the reconciler, checked under SpecMatch         *)

\* transactions claimed by the pairs placed before pair p
ClaimedBefore(p) == {matched_trades[q].ti : q \in 1..(p - 1)}

\* transactions claimed by the pairs of the intentions before intention n
ClaimedByEarlier(n) ==
    {matched_trades[q].ti : q \in {r \in DOMAIN matched_trades :
                                      matched_trades[r].ii < n}}

Unclaimed(n, claimed) ==
    {k \in DOMAIN oanda_transactions :
        k \notin claimed /\ Candidate(bot_intentions[n], oanda_transactions[k])}

\* C18: assignment is first-fit over unclaimed transactions: every pair joins
\* its intention with the first transaction, in the given order, that
\* satisfies the predicates and was not claimed by an earlier pair; the pairs
\* follow the order of the intentions; and an executed intention stays
\* unmatched only when no unclaimed candidate exists.
C18_FirstFitOverUnclaimed ==
    MatchReturned =>
        /\ \A p \in DOMAIN matched_trades :
              LET free == Unclaimed(matched_trades[p].ii, ClaimedBefore(p))
              IN /\ matched_trades[p].ti \in free
                 /\ \A k \in free : matched_trades[p].ti <= k
        /\ \A p, q \in DOMAIN matched_trades :
              p < q => matched_trades[p].ii < matched_trades[q].ii
        /\ \A n \in DOMAIN bot_intentions :
              (bot_intentions[n].executed /\ ~Paired(n))
                  => Unclaimed(n, ClaimedByEarlier(n)) = {}

----------------------------------------------------------------------------
(* Order and completeness of the emitted decisions, under SpecExtract      *)

ExecMarkers == {k \in DOMAIN log_content : EXECUTED_MARKER \in log_content[k].has}

\* the line at which decision n was appended to the list
EmissionLine(n) ==
    CHOOSE j \in DOMAIN log_content :
        /\ Len(ParseState(log_content, j).decisions) >= n
        /\ Len(ParseState(log_content, j - 1).decisions) < n

\* the marker line that defines decision n: the rejected line itself, or the
\* trade-executed marker that opened the builder sealed at the emission line
MarkerLine(n) ==
    IF bot_decisions[n].action_taken = "REJECTED" THEN EmissionLine(n)
    ELSE CHOOSE k \in ExecMarkers :
             /\ k < EmissionLine(n)
             /\ \A i \in ExecMarkers : i < EmissionLine(n) => i <= k

\* C19: the decisions are emitted in the order of their defining marker
\* lines: when the marker of one decision precedes the marker of another in
\* the log, the first decision precedes the second in the output, also when a
\* rejected line lies between an executed marker and its risk/reward line.
C19_EmittedInMarkerOrder ==
    (pc = "parsed" /\ bot_decisions # <<>>) =>
        \A m, n \in DOMAIN bot_decisions :
            m < n => MarkerLine(m) < MarkerLine(n)

\* markers whose builder meets a risk/reward line before the next marker and
\* before the end of the text
FinishedMarkers ==
    {k \in ExecMarkers :
        \E j \in DOMAIN log_content :
            /\ j > k
            /\ "Risk/Reward:" \in log_content[j].has
            /\ \A i \in (k + 1)..j : i \notin ExecMarkers}

ExecutedDecisions ==
    {n \in DOMAIN bot_decisions : bot_decisions[n].action_taken = "EXECUTED"}

\* C20: an unfinished builder never becomes a decision: every EXECUTED
\* decision comes from a trade-executed marker that is followed by a
\* risk/reward line before the next marker and before the end of the text,
\* and no marker gives more than one decision.
C20_UnfinishedBuilderNeverEmitted ==
    \E f \in [ExecutedDecisions -> FinishedMarkers] :
        /\ \A m, n \in ExecutedDecisions : m # n => f[m] # f[n]
        /\ \A n \in ExecutedDecisions :
              bot_decisions[n].timestamp = Timestamp(log_content[f[n]])

\* a decision was emitted from a log in which another marker's builder was
\* superseded or left open at the end
C20_Witness ==
    /\ pc = "parsed"
    /\ ExecutedDecisions # {}
    /\ Cardinality(ExecMarkers) > Cardinality(ExecutedDecisions)

----------------------------------------------------------------------------
(* Properties of the historical aggregator, checked under SpecAnalyze      *)

\* analyze_what_worked_vs_failed has run and returned a report, not an error
Reported == pc = "analyzed" /\ "error" \notin DOMAIN analysis

\* C14: with empty inputs (no decisions parsed, no trades normalised) the
\* aggregation completes with zeroed statistics and empty partitions instead
\* of an error value.
C14_EmptyInputsZeroed ==
    (pc = "analyzed" /\ historical_trades = <<>> /\ bot_decisions = <<>>) =>
        /\ "error" \notin DOMAIN analysis
        /\ analysis.overall_performance.total_trades = 0
        /\ analysis.overall_performance.win_rate.num = 0
        /\ analysis.overall_performance.total_profit = 0
        /\ analysis.pair_analysis.best_performing = <<>>
        /\ analysis.pair_analysis.worst_performing = <<>>
        /\ analysis.time_analysis.best_hours = <<>>
        /\ analysis.time_analysis.worst_hours = <<>>

\* alphabetical order of the instrument keys, numeric order of the hour keys
Alphabet == <<"AUD", "CAD", "CHF", "EUR", "GBP", "JPY", "NZD", "USD">>
Rank(c) == CHOOSE k \in DOMAIN Alphabet : Alphabet[k] = c
PairNotAfter(a, b) ==
    \/ Rank(a[1]) < Rank(b[1])
    \/ Rank(a[1]) = Rank(b[1]) /\ Rank(a[3]) <= Rank(b[3])
HourNotAfter(a, b) == a[1] <= b[1]

TiesByKey(rows, NotAfter(_, _)) ==
    \A k \in 1..(Len(rows) - 1) :
        rows[k].profit = rows[k + 1].profit
            => NotAfter(rows[k].key, rows[k + 1].key)

\* C15: in the best and the worst rankings by total pl, groups of equal pl
\* stand in the natural order of their keys (alphabetical for instruments,
\* numeric for hours), so that the ranking does not depend on the order of the
\* trades in the input.
C15_TiesBrokenByKey ==
    Reported =>
        /\ TiesByKey(analysis.pair_analysis.best_performing, PairNotAfter)
        /\ TiesByKey(analysis.pair_analysis.worst_performing, PairNotAfter)
        /\ TiesByKey(analysis.time_analysis.best_hours, HourNotAfter)
        /\ TiesByKey(analysis.time_analysis.worst_hours, HourNotAfter)

AggregatedTrades == closed_trades(historical_trades)

InstrumentsAggregated ==
    {Replace(AggregatedTrades[k].instrument, "_", "/") : k \in DOMAIN AggregatedTrades}

\* the rows cover every distinct instrument once, and their counts and
\* profits add up to the aggregated trades
OneRowPerInstrument(rows) ==
    /\ Len(rows) = Cardinality(InstrumentsAggregated)
    /\ {rows[k].key : k \in DOMAIN rows} = InstrumentsAggregated
    /\ SumSeq([k \in DOMAIN rows |-> rows[k].trades]) = Len(AggregatedTrades)
    /\ SumSeq([k \in DOMAIN rows |-> rows[k].profit])
         = analysis.overall_performance.total_profit

----------------------------------------------------------------------------
(* Properties of the confidence buckets, checked under SpecConfidence      *)

\* analyze_confidence_vs_winrate has run and returned its bucket rows
Bucketed ==
    pc = "analyzed" /\ raised = "none" /\ "bin_analysis" \in DOMAIN results

\* the pl of the records that pd.cut placed in the bucket of the given label
BucketPl(label) ==
    LET idx == SelectSeq(PositionsTo(Len(df.PL_NUMERIC)),
                         LAMBDA k : df.CONFIDENCE_BIN.values[k] = label)
    IN [k \in DOMAIN idx |-> df.PL_NUMERIC[idx[k]]]

Positive(xs) == SelectSeq(xs, LAMBDA x : x > 0)
Negative(xs) == SelectSeq(xs, LAMBDA x : x < 0)

\* the quotient r is the finite number num / den
RatioIs(r, num, den) == r.den # 0 /\ r.num * den = num * r.den

\* C12: the profit_factor of every bucket row is (sum of positive pl) /
\* |sum of negative pl| of the bucket's records: +infinity when the bucket has
\* winners and no negative pl, and 2.0 for wins totalling 100 and losses
\* totalling -50.
C12_ProfitFactorIsGrossRatio ==
    Bucketed =>
        \A r \in DOMAIN results.bin_analysis :
            LET row == results.bin_analysis[r]
                gross_win == SumSeq(Positive(BucketPl(row.confidence_range)))
                gross_loss == SumSeq(Negative(BucketPl(row.confidence_range)))
            IN /\ gross_loss # 0 =>
                      RatioIs(row.profit_factor, gross_win, Abs(gross_loss))
               /\ (gross_win > 0 /\ gross_loss = 0) =>
                      row.profit_factor = Infinity

\* C13: the avg_winner and avg_loser of every bucket row are the mean pl of
\* the bucket's positive and negative records, exactly 0 when that subset is
\* empty and never NaN, also for a bucket of winners and breakeven records
\* only; the profit_factor derived from them stays defined.
C13_AveragesNeverNaN ==
    Bucketed =>
        \A r \in DOMAIN results.bin_analysis :
            LET row == results.bin_analysis[r]
                won == Positive(BucketPl(row.confidence_range))
                lost == Negative(BucketPl(row.confidence_range))
            IN /\ IF won = <<>> THEN RatioIs(row.avg_winner, 0, 1)
                  ELSE RatioIs(row.avg_winner, SumSeq(won), Len(won))
               /\ IF lost = <<>> THEN RatioIs(row.avg_loser, 0, 1)
                  ELSE RatioIs(row.avg_loser, SumSeq(lost), Len(lost))
               /\ ~IsNaN(row.profit_factor)

\* records whose confidence lies in the covered range, bounds included
InCoveredRange ==
    {k \in DOMAIN df.PL_NUMERIC :
        /\ df.SIMULATED_CONFIDENCE.values[k] >= confidence_bins[1]
        /\ df.SIMULATED_CONFIDENCE.values[k]
             <= confidence_bins[Len(confidence_bins)]}

\* C16: every record whose confidence lies in 0.50..1.00, bounds included, is
\* assigned to one bucket whose bounds enclose the value; confidence 0.72 is
\* in bucket "70%-75%"; and the trade counts of the bucket rows add up to the
\* number of such records.
C16_BucketsPartitionCoveredRange ==
    (pc = "analyzed" /\ df.CONFIDENCE_BIN.present) =>
        /\ \A k \in InCoveredRange :
              \E i \in Categories :
                  /\ df.CONFIDENCE_BIN.values[k] = BinLabel(i)
                  /\ confidence_bins[i] <= df.SIMULATED_CONFIDENCE.values[k]
                  /\ df.SIMULATED_CONFIDENCE.values[k] <= confidence_bins[i + 1]
        /\ \A k \in DOMAIN df.PL_NUMERIC :
              df.SIMULATED_CONFIDENCE.values[k] = 72
                  => df.CONFIDENCE_BIN.values[k] = <<70, "%-", 75, "%">>
        /\ Bucketed =>
              SumSeq([r \in DOMAIN results.bin_analysis |->
                         results.bin_analysis[r].total_trades])
                = Cardinality(InCoveredRange)

----------------------------------------------------------------------------
(* The scan of parse_bot_decisions line by line, under SpecExtract         *)

\* parse_bot_decisions was the last extractor called, on a log with text
HistoricalParsed ==
    pc = "parsed" /\ last_parse.call = "historical" /\ log_content # <<>>

\* the state of the scan after line j
ScanAfter(j) == ParseState(log_content, j)

\* C21: whenever a risk/reward line is met while a builder is open, the
\* builder is sealed and emitted as an EXECUTED decision and no builder stays
\* open; a risk/reward line whose number is malformed seals as well, leaving
\* risk_reward_ratio at 0.
C21_RiskRewardLineSeals ==
    HistoricalParsed =>
        \A j \in DOMAIN log_content :
            ( /\ "Risk/Reward:" \in log_content[j].has
              /\ EXECUTED_MARKER \notin log_content[j].has
              /\ ScanAfter(j - 1).current # NoDecision )
            => /\ ScanAfter(j).current = NoDecision
               /\ Len(ScanAfter(j).decisions) = Len(ScanAfter(j - 1).decisions) + 1
               /\ bot_decisions[Len(ScanAfter(j).decisions)].action_taken = "EXECUTED"
               /\ log_content[j].rr.kind # "num" =>
                      bot_decisions[Len(ScanAfter(j).decisions)].risk_reward_ratio = 0

\* C22: every line with the signal-rejected marker emits exactly one REJECTED
\* decision and leaves the builder in progress as it was, whether or not one
\* is open and whatever the reason text contains.
C22_RejectedLineIsStandalone ==
    HistoricalParsed =>
        \A j \in DOMAIN log_content :
            ( /\ REJECTED_MARKER \in log_content[j].has
              /\ EXECUTED_MARKER \notin log_content[j].has )
            => /\ ScanAfter(j).current = ScanAfter(j - 1).current
               /\ Len(ScanAfter(j).decisions) = Len(ScanAfter(j - 1).decisions) + 1
               /\ bot_decisions[Len(ScanAfter(j).decisions)].action_taken = "REJECTED"

SignalFoundLine(j) ==
    /\ "Signal found for" \in log_content[j].has
    /\ "Confidence:" \in log_content[j].has

\* C26: an EXECUTED decision carries a non-zero confidence only if a
\* signal-found line with that confidence lies between its trade-executed
\* marker and its risk/reward line; and a signal-found line met while no
\* builder is open changes nothing.
C26_ConfidenceOnlyFromOwnBlock ==
    HistoricalParsed =>
        /\ \A n \in ExecutedDecisions :
              bot_decisions[n].confidence # 0 =>
                  \E j \in DOMAIN log_content :
                      /\ MarkerLine(n) < j
                      /\ j < EmissionLine(n)
                      /\ SignalFoundLine(j)
                      /\ log_content[j].conf = Num(bot_decisions[n].confidence)
        /\ \A j \in DOMAIN log_content :
              ( /\ SignalFoundLine(j)
                /\ EXECUTED_MARKER \notin log_content[j].has
                /\ REJECTED_MARKER \notin log_content[j].has
                /\ ScanAfter(j - 1).current = NoDecision )
              => ScanAfter(j) = ScanAfter(j - 1)

\* a decision was emitted without confidence from a log whose signal-found
\* line stands before the trade-executed marker
C26_Witness ==
    /\ HistoricalParsed
    /\ \E n \in ExecutedDecisions :
          /\ bot_decisions[n].confidence = 0
          /\ \E j \in DOMAIN log_content :
                j < MarkerLine(n) /\ SignalFoundLine(j) /\ log_content[j].conf = Num(72)

----------------------------------------------------------------------------
(* Block-local fields of the live extractor, under SpecExtract             *)

\* parse_bot_intentions was the last extractor called, on a log with text in
\* which every number parses
LiveParsedClean ==
    /\ pc = "parsed" /\ last_parse.call = "live" /\ log_content # <<>>
    /\ ~WindowRaises(log_content, DOMAIN log_content)

\* the marker lines that yield an intention, in line order
YieldingMarkers ==
    SelectSeq(PositionsTo(Len(log_content)),
              LAMBDA k : k \in ExecMarkers /\ log_content[k].pair # <<>>)

\* the block of the marker at line k: from k up to the next marker, and for
\* the first marker of the log the lines that precede it as well
OwnBlock(k) ==
    {j \in DOMAIN log_content : j >= k /\ \A i \in (k + 1)..j : i \notin ExecMarkers}
        \cup (IF \A i \in 1..(k - 1) : i \notin ExecMarkers THEN 1..(k - 1) ELSE {})

ExecutedIntentions == SelectSeq(bot_intentions, LAMBDA i : i.executed)

\* `value` is a number the lines `own` log under `label`, or 0 when they log none
FromOwnBlock(value, own, label, field) ==
    LET logged == { log_content[j][field].v :
                      j \in { i \in own : /\ label \in log_content[i].has
                                          /\ log_content[i][field].kind = "num" } }
    IN IF logged = {} THEN value = 0 ELSE value \in logged

\* C30: the intention built for the trade-executed marker at line k takes its
\* fields only from the lines of that marker's own block: markers of equal
\* text at different positions use their own neighbouring lines, and a field
\* the block does not log stays 0 and is not taken from another block.
C30_FieldsFromOwnBlock ==
    LiveParsedClean =>
        /\ Len(ExecutedIntentions) = Len(YieldingMarkers)
        /\ \A n \in DOMAIN ExecutedIntentions :
              LET own == OwnBlock(YieldingMarkers[n])
              IN /\ FromOwnBlock(ExecutedIntentions[n].entry_price, own, "Entry:", "entry")
                 /\ FromOwnBlock(ExecutedIntentions[n].target_price, own,
                                 "Take Profit:", "target")
                 /\ FromOwnBlock(ExecutedIntentions[n].risk_reward_ratio, own,
                                 "Risk/Reward:", "rr")

----------------------------------------------------------------------------
(* The records fetch_extended_trade_history builds from the ledger, under   *)
(* SpecFetch                                                               *)

\* the call went through: the response arrived and no entry raised
HistoricalFetched ==
    /\ pc = "fetched" /\ last_fetch.call = "historical" /\ last_fetch.ok
    /\ HistLoop(ledger, 1, <<>>).raised = "none"

OrderIds == { ledger[j].id : j \in { i \in DOMAIN ledger : ledger[i].type = "MARKET_ORDER" } }

\* the records built from the ledger stand first in the list, the open
\* positions of the second pass after them
BuiltRecords == 1..Cardinality(OrderIds)

\* the OPEN entry of the record of trade `id`: the last order of that id
OpenEntry(id) ==
    CHOOSE j \in DOMAIN ledger :
        /\ ledger[j].type = "MARKET_ORDER" /\ ledger[j].id = id
        /\ \A i \in DOMAIN ledger :
              (ledger[i].type = "MARKET_ORDER" /\ ledger[i].id = id) => i <= j

\* the trade a FILL refers to: its opened link, else its first closed link
ReferencedId(tx) ==
    IF tx.tradeOpened # "" THEN tx.tradeOpened
    ELSE IF tx.tradesClosed.present /\ tx.tradesClosed.ids # <<>>
    THEN tx.tradesClosed.ids[1]
    ELSE ""

\* the FILL entries after the OPEN entry of `id` that refer to it, in order
FillsOf(id) ==
    SelectSeq(PositionsTo(Len(ledger)),
              LAMBDA j : /\ j > OpenEntry(id)
                         /\ ledger[j].type = "ORDER_FILL"
                         /\ ReferencedId(ledger[j]) = id)

\* C23: the pl of each record built from the ledger is the sum of the pl of
\* the FILL entries that follow the record's OPEN entry and refer to its id
\* by the opened link, else by the first closed link; a FILL that refers to
\* an id without a record creates no record.
C23_PlIsSumOfReferencingFills ==
    HistoricalFetched =>
        /\ Len(historical_trades) >= Cardinality(OrderIds)
        /\ \A n \in BuiltRecords :
              /\ historical_trades[n].trade_id \in OrderIds
              /\ LET fills == FillsOf(historical_trades[n].trade_id)
                 IN historical_trades[n].pl =
                        SumSeq([k \in DOMAIN fills |-> FloatOf(ledger[fills[k]].pl)])

\* a record carries the pl of a FILL that follows its OPEN entry while a FILL
\* ahead of the OPEN entry, which referred to the same id when no record
\* existed, left nothing
C23_Witness ==
    /\ HistoricalFetched
    /\ \E n \in BuiltRecords :
          /\ historical_trades[n].pl # 0
          /\ Len(FillsOf(historical_trades[n].trade_id)) >= 1
          /\ \E j \in DOMAIN ledger :
                /\ j < OpenEntry(historical_trades[n].trade_id)
                /\ ledger[j].type = "ORDER_FILL"
                /\ ReferencedId(ledger[j]) = historical_trades[n].trade_id
                /\ FloatOf(ledger[j].pl) # 0

\* C24: a record is marked CLOSED exactly when a FILL after its OPEN entry
\* names the record's id in its closed links: a FILL that opens X and closes
\* Y marks Y and not X, and every trade a FILL lists as closed ends CLOSED.
C24_ClosedOnlyByClosedLink ==
    HistoricalFetched =>
        \A n \in 1..Len(historical_trades) :
            n \in BuiltRecords =>
                ( historical_trades[n].status = "CLOSED"
                  <=> \E j \in DOMAIN ledger :
                         /\ j > OpenEntry(historical_trades[n].trade_id)
                         /\ ledger[j].type = "ORDER_FILL"
                         /\ ledger[j].tradesClosed.present
                         /\ historical_trades[n].trade_id
                                \in Range(ledger[j].tradesClosed.ids) )

\* C25: after fetch_extended_trade_history, the pass over the open positions
\* included, no two records of historical_trades carry the same trade id.
C25_TradeIdsUnique ==
    HistoricalFetched =>
        \A m, n \in DOMAIN historical_trades :
            historical_trades[m].trade_id = historical_trades[n].trade_id => m = n

----------------------------------------------------------------------------
(* Pair counts of match_trades and the figures derived from them, under     *)
(* SpecMatch                                                               *)

\* C27: each executed intention is in at most one pair of matched_trades and
\* an intention that was not executed is in none, so there are never more
\* pairs than executed intentions and the reported execution_accuracy lies
\* within [0, 1].
C27_AtMostOnePairPerExecuted ==
    /\ \A n \in DOMAIN bot_intentions :
          Cardinality(PairsOfIntention(n))
              <= (IF bot_intentions[n].executed THEN 1 ELSE 0)
    /\ \A p \in DOMAIN matched_trades :
          matched_trades[p].ii \in DOMAIN bot_intentions
    /\ Len(matched_trades) <= Len(executed_intentions(bot_intentions))
    /\ pc = "metrics" =>
          /\ metrics.execution_accuracy.den > 0
          /\ 0 <= metrics.execution_accuracy.num
          /\ metrics.execution_accuracy.num <= metrics.execution_accuracy.den

\* the metrics were computed after an executed intention with two matching
\* transactions got one pair, next to an intention that was not executed
C27_Witness ==
    /\ MatchReturned /\ pc = "metrics"
    /\ \E n \in DOMAIN bot_intentions :
          /\ Cardinality({k \in DOMAIN oanda_transactions :
                 _trades_match(bot_intentions[n], oanda_transactions[k]) = "True"}) = 2
          /\ Cardinality(PairsOfIntention(n)) = 1
    /\ \E n \in DOMAIN bot_intentions : ~bot_intentions[n].executed
    /\ metrics.execution_accuracy = Ratio(1, 1)

\* C28: the reported unexpected_trades is never negative and is the number of
\* stored transactions that are in no matched pair, for every combination of
\* intentions and transactions, several intentions matching one transaction
\* included.
C28_UnexpectedCountsUnpaired ==
    (MatchReturned /\ pc = "metrics") =>
        /\ metrics.unexpected_trades >= 0
        /\ metrics.unexpected_trades =
               Cardinality({k \in DOMAIN oanda_transactions : ~Matched(k)})

----------------------------------------------------------------------------
(* One analyzer called again and again: the calls of run_complete_analysis *)
(* repeated on the same object, each round with a new log text and a new   *)
(* ledger response                                                         *)

\* the log texts a round may receive; the empty text is what fetch_railway_logs
\* returns when no log could be fetched
SessionLogs ==
    { <<>>, <<L_exec_pair, L_entry>>, <<L_exec, L_rr>>, <<L_rej>> }

\* the ledger responses a round may receive
SessionLedgers ==
    { <<>>, <<R_open1>>, <<R_order1, R_close1>>, <<R_fill_bad_pl>> }

\* a call has returned; the caller goes on with the next one, possibly with
\* the text and the response of a new round
NextInvocation ==
    /\ pc \in {"parsed", "fetched", "matched"}
    /\ pc' = "load"
    /\ \E text \in SessionLogs : log_content' = text
    /\ \E response \in SessionLedgers : ledger' = response
    /\ UNCHANGED <<bot_intentions, oanda_transactions, matched_trades, metrics,
                   raised, match_calls, bot_decisions, last_parse,
                   historical_trades, last_fetch>>
    /\ UNCHANGED aggVars

NextSession ==
    \/ parse_bot_intentions
    \/ parse_bot_decisions
    \/ fetch_oanda_transactions
    \/ match_trades
    \/ NextInvocation

SpecSession == Init /\ [][NextSession]_vars

\* C29: nothing is carried from one call to the next on the same analyzer:
\* the stored intentions, decisions and transactions are what the most recent
\* parse and fetch returned - empty after a parse of an empty text or a
\* failed fetch - and match_trades pairs no record that the most recent parse
\* and fetch did not return.
C29_StoredIsLastReturned ==
    /\ last_parse.call = "live" => bot_intentions = last_parse.returned
    /\ last_parse.call = "historical" => bot_decisions = last_parse.returned
    /\ last_fetch.call = "live" => oanda_transactions = last_fetch.returned
    /\ (pc = "matched" /\ raised = "none") =>
          \A p \in DOMAIN matched_trades :
              /\ last_parse.call = "live" =>
                     matched_trades[p].intention \in Range(last_parse.returned)
              /\ last_fetch.call = "live" =>
                     matched_trades[p].transaction \in Range(last_fetch.returned)

====
